---- MODULE Spec2Model ----
(***************************************************************************)
(* Payment flow orchestration of the Stripe / PayPal commercetools         *)
(* connector:                                                              *)
(*   - PaymentFlows (enabler/src/components/payment-flows.ts): submit()    *)
(*     and its three mode sequences, createPayPalPayment();                *)
(*   - PaymentElementComponent (enabler/src/components/payment-element.ts):*)
(*     mount(), selectPayPal(), deselectPayPal(), the PayPal button        *)
(*     callbacks, submit();                                                *)
(*   - PayPalPaymentService.capturePayPalOrder                             *)
(*     (processor/src/services/paypal-payment.service.ts) and              *)
(*     createOrderFromCart (processor/src/services/commerce-tools/         *)
(*     order-client.ts), against a commercetools cart with optimistic      *)
(*     concurrency.                                                        *)
(***************************************************************************)
EXTENDS Integers, Sequences, FiniteSets, TLC

(***************************************************************************)
(* Bounds of the model.                                                    *)
(***************************************************************************)
MaxSubmits == 2

MaxSettles == 2

MaxWallets == 1

MaxTouches == 1

MaxMounts == 2
MaxSubErrors == 2

Subs == 1..MaxSubmits

Mounts == 1..MaxMounts

Reqs == 1..MaxSettles

Wallets == 1..MaxWallets

(***************************************************************************)
(* Values exchanged with the backend and the provider SDK.                 *)
(***************************************************************************)
Modes == {"payment", "subscription", "setup", "other"}

PaymentRefs == {"pr_1", "pr_2"}

ClientSecrets == {"cs_1", "cs_2"}

IntentIds == {"pi_1", "pi_2"}

SubscriptionIds == {"sub_1", "sub_2"}

Errors == {"err_1", "err_2"}

\* PayPal order ids, in the order PayPal issues them.
ProviderOrderIds == <<"EC-1", "EC-2", "EC-3", "EC-4", "EC-5", "EC-6">>

\* Cart totals in cents (centAmount).
Amounts == {0, 1999}

NoVal == "none"

VARIABLES
    paymentMode,       \* PaymentFlows.paymentMode, fixed at construction
    flows,             \* one record per PaymentElementComponent.submit() invocation
    isPayPalSelected,  \* PaymentElementComponent.isPayPalSelected
    paypalMounted,     \* PaymentElementComponent.paypalMounted
    paypalConfig,      \* PaymentElementComponent.paypalConfig
    sdk,               \* window.paypal is defined
    changeListeners,   \* "change" listeners registered on the Stripe Payment Element
    mounts,            \* one record per mount() invocation
    dom,               \* the children of the mount container, in document order
    lastUi,            \* the last event that touched the selector, and the state before it
    wallets,           \* one record per use of the rendered PayPal button
    ct,                \* the commercetools project: the cart, the payments, the orders
    reqs,              \* one record per POST /paypal/orders/:orderId/capture request
    touches            \* cart updates made by requests other than settlement

flowVars == <<paymentMode, flows>>

uiVars ==
    <<isPayPalSelected, paypalMounted, paypalConfig, sdk, changeListeners, mounts, dom,
      lastUi>>

srvVars == <<ct, reqs, touches>>

vars ==
    <<paymentMode, flows, isPayPalSelected, paypalMounted, paypalConfig, sdk,
      changeListeners, mounts, dom, lastUi, wallets, ct, reqs, touches>>

(***************************************************************************)
(* One submit() invocation: pc is the call it awaits, the locals of the    *)
(* mode function it runs, and tr, the calls, returns and callbacks it has  *)
(* made so far, in order.                                                  *)
(***************************************************************************)
Ev(kind, name, arg) == [ev |-> kind, name |-> name, arg |-> arg]

FlowInit ==
    [pc |-> "idle", ref |-> NoVal, secret |-> NoVal, pid |-> NoVal,
     subId |-> NoVal, tr |-> <<>>]

Log(f, e) == [f EXCEPT !.tr = Append(@, e)]

\* A call to the backend (api.*) or the provider SDK (stripe.*, elements.*)
\* is issued and awaited.
Issue(f, pc, name, arg) == [Log(f, Ev("call", name, arg)) EXCEPT !.pc = pc]

Returned(f, name, res) == Log(f, Ev("ret", name, res))

OnComplete(f, ref, pid) ==
    [Log(f, Ev("onComplete", "PaymentResult", <<"isSuccess", ref, pid>>))
        EXCEPT !.pc = "done"]

\* A catch clause that swallows the exception instead of reporting it.
SubmitCatch_swallow(f, err) == [f EXCEPT !.pc = "done"]

\* submit(): catch (error) { this.onError?.(error); }
SubmitCatch(f, err) == [Log(f, Ev("onError", "error", <<err>>)) EXCEPT !.pc = "done"]

\* A rejected backend or provider call that is issued again instead of being thrown.
Throws_retries(f, name, err) ==
    IF name = "submit"
    THEN SubmitCatch(Log(f, Ev("throw", name, <<err>>)), err)
    ELSE Log(Log(f, Ev("throw", name, <<err>>)), f.tr[Len(f.tr)])

\* A step of the try block throws err: control goes to the catch clause.
Throws(f, name, err) == SubmitCatch(Log(f, Ev("throw", name, <<err>>)), err)


(***************************************************************************)
(* PaymentFlows.createPayment: getPayment, confirmStripePayment,           *)
(* confirmPaymentIntent, onComplete.                                       *)
(***************************************************************************)
createPayment(f) == Issue(f, "cp_getPayment", "getPayment", <<>>)

\* A createPayment that confirms with a ref kept from an earlier submission.
createPayment_confirm_reusesRef(f, ref, secret) ==
    Issue([Returned(f, "getPayment", <<ref, secret>>) EXCEPT !.ref = "pr_1", !.secret = "cs_1"],
          "cp_confirmStripePayment", "confirmStripePayment", <<"pr_1", "cs_1">>)

createPayment_confirm(f, ref, secret) ==
    Issue([Returned(f, "getPayment", <<ref, secret>>) EXCEPT !.ref = ref, !.secret = secret],
          "cp_confirmStripePayment", "confirmStripePayment", <<ref, secret>>)

\* A createPayment that sends the client secret as the payment reference.
createPayment_record_sendsSecret(f, pid) ==
    Issue([Returned(f, "confirmStripePayment", <<pid>>) EXCEPT !.pid = pid],
          "cp_confirmPaymentIntent", "confirmPaymentIntent", <<pid, f.secret>>)

createPayment_record(f, pid) ==
    Issue([Returned(f, "confirmStripePayment", <<pid>>) EXCEPT !.pid = pid],
          "cp_confirmPaymentIntent", "confirmPaymentIntent", <<pid, f.ref>>)

createPayment_complete(f) ==
    OnComplete(Returned(f, "confirmPaymentIntent", <<>>), f.ref, f.pid)

(***************************************************************************)
(* PaymentFlows.createSetupIntent: createSetupIntent,                      *)
(* confirmStripeSetupIntent, createSubscriptionFromSetupIntent,            *)
(* confirmSubscriptionPayment, onComplete.                                 *)
(***************************************************************************)
createSetupIntent(f) == Issue(f, "si_createSetupIntent", "createSetupIntent", <<>>)

createSetupIntent_confirm(f, secret) ==
    Issue([Returned(f, "createSetupIntent", <<secret>>) EXCEPT !.secret = secret],
          "si_confirmStripeSetupIntent", "confirmStripeSetupIntent", <<secret>>)

createSetupIntent_subscribe(f, setupIntentId) ==
    Issue([Returned(f, "confirmStripeSetupIntent", <<setupIntentId>>)
              EXCEPT !.pid = setupIntentId],
          "si_createSubscriptionFromSetupIntent", "createSubscriptionFromSetupIntent",
          <<setupIntentId>>)

createSetupIntent_record(f, subscriptionId, ref) ==
    Issue([Returned(f, "createSubscriptionFromSetupIntent", <<subscriptionId, ref>>)
              EXCEPT !.subId = subscriptionId, !.ref = ref],
          "si_confirmSubscriptionPayment", "confirmSubscriptionPayment",
          <<subscriptionId, ref>>)

createSetupIntent_complete(f) ==
    OnComplete(Returned(f, "confirmSubscriptionPayment", <<>>), f.ref, f.pid)

(***************************************************************************)
(* PaymentFlows.createSubscription: createSubscription,                    *)
(* confirmStripePayment, confirmSubscriptionPayment, onComplete.           *)
(***************************************************************************)
createSubscription(f) == Issue(f, "cs_createSubscription", "createSubscription", <<>>)

createSubscription_confirm(f, ref, secret, subscriptionId) ==
    Issue([Returned(f, "createSubscription", <<ref, secret, subscriptionId>>)
              EXCEPT !.ref = ref, !.secret = secret, !.subId = subscriptionId],
          "cs_confirmStripePayment", "confirmStripePayment", <<ref, secret>>)

createSubscription_record(f, pid) ==
    Issue([Returned(f, "confirmStripePayment", <<pid>>) EXCEPT !.pid = pid],
          "cs_confirmSubscriptionPayment", "confirmSubscriptionPayment",
          <<f.subId, f.ref, pid>>)

createSubscription_complete(f) ==
    OnComplete(Returned(f, "confirmSubscriptionPayment", <<>>), f.ref, f.pid)

(***************************************************************************)
(* PaymentFlows.submit: elements.submit(), then the switch on paymentMode. *)
(***************************************************************************)
submit(f) == Issue(f, "elements", "elements.submit", <<>>)

\* The switch with the "subscription" and "setup" cases exchanged.
submit_switch_swapped(f, mode) ==
    CASE mode = "payment" -> createPayment(f)
      [] mode = "subscription" -> createSetupIntent(f)
      [] mode = "setup" -> createSubscription(f)
      [] OTHER -> Throws(f, "submit", "Invalid payment mode")

submit_switch(f, mode) ==
    CASE mode = "payment" -> createPayment(f)
      [] mode = "subscription" -> createSubscription(f)
      [] mode = "setup" -> createSetupIntent(f)
      [] OTHER -> Throws(f, "submit", "Invalid payment mode")

\* A submit() that goes on to the mode's sequence whatever elements.submit() reported.
submit_validated_continues(f, submitError, mode) ==
    submit_switch(Returned(f, "elements.submit",
                           IF submitError # NoVal THEN <<submitError>> ELSE <<>>), mode)

\* const { error: submitError } = await this.elements.submit();
\* if (submitError) throw submitError;
submit_validated(f, submitError, mode) ==
    IF submitError # NoVal
    THEN Throws(Returned(f, "elements.submit", <<submitError>>), "submit", submitError)
    ELSE submit_switch(Returned(f, "elements.submit", <<>>), mode)

Awaiting(s, pc) == flows[s].pc = pc

Step(s, f) ==
    /\ flows' = [flows EXCEPT ![s] = f]
    /\ UNCHANGED <<paymentMode, uiVars, wallets, srvVars>>

\* The last event on the selector was the end of a mount() that found its container,
\* and no selectPayPal() ran while that mount() was in progress.
FreshlyMounted == lastUi.ev = "mounted" /\ mounts[lastUi.m].clean

UiEvent(ev, m) ==
    [ev |-> ev, m |-> m, was |-> isPayPalSelected,
     marked |-> \E i \in DOMAIN dom : dom[i].sel,
     fresh |-> ev = "submit" /\ FreshlyMounted]

\* A submit() that dispatches whatever the selection is.
ComponentSubmit_ignoresSelection(s) ==
    /\ Awaiting(s, "idle")
    /\ \A t \in Subs : t < s => ~Awaiting(t, "idle")
    /\ flows' = [flows EXCEPT ![s] = submit(flows[s])]
    /\ lastUi' = UiEvent("submit", s)
    /\ UNCHANGED <<paymentMode, isPayPalSelected, paypalMounted, paypalConfig, sdk,
                   changeListeners, mounts, dom, wallets, srvVars>>

\* PaymentElementComponent.submit()
ComponentSubmit(s) ==
    /\ Awaiting(s, "idle")
    /\ \A t \in Subs : t < s => ~Awaiting(t, "idle")
    /\ flows' = [flows EXCEPT ![s] = IF isPayPalSelected
                                     THEN [flows[s] EXCEPT !.pc = "skipped"]
                                     ELSE submit(flows[s])]
    /\ lastUi' = UiEvent("submit", s)
    /\ UNCHANGED <<paymentMode, isPayPalSelected, paypalMounted, paypalConfig, sdk,
                   changeListeners, mounts, dom, wallets, srvVars>>

ElementsSubmitReturns(s) ==
    /\ Awaiting(s, "elements")
    /\ \E submitError \in Errors \cup {NoVal} :
          Step(s, submit_validated(flows[s], submitError, paymentMode))

\* The awaited call of invocation s rejects: the exception reaches submit()'s catch.
CallFails(s) ==
    /\ flows[s].pc \notin {"idle", "skipped", "done"}
    /\ \E e \in Errors : Step(s, Throws(flows[s], flows[s].pc, e))

GetPaymentReturns(s) ==
    /\ Awaiting(s, "cp_getPayment")
    /\ \E ref \in PaymentRefs, secret \in ClientSecrets :
          Step(s, createPayment_confirm(flows[s], ref, secret))

ConfirmStripePaymentReturns(s) ==
    \/ /\ Awaiting(s, "cp_confirmStripePayment")
       /\ \E pid \in IntentIds : Step(s, createPayment_record(flows[s], pid))
    \/ /\ Awaiting(s, "cs_confirmStripePayment")
       /\ \E pid \in IntentIds : Step(s, createSubscription_record(flows[s], pid))

ConfirmPaymentIntentReturns(s) ==
    /\ Awaiting(s, "cp_confirmPaymentIntent")
    /\ Step(s, createPayment_complete(flows[s]))

CreateSetupIntentReturns(s) ==
    /\ Awaiting(s, "si_createSetupIntent")
    /\ \E secret \in ClientSecrets : Step(s, createSetupIntent_confirm(flows[s], secret))

ConfirmStripeSetupIntentReturns(s) ==
    /\ Awaiting(s, "si_confirmStripeSetupIntent")
    /\ \E sid \in IntentIds : Step(s, createSetupIntent_subscribe(flows[s], sid))

CreateSubscriptionFromSetupIntentReturns(s) ==
    /\ Awaiting(s, "si_createSubscriptionFromSetupIntent")
    /\ \E subscriptionId \in SubscriptionIds, ref \in PaymentRefs :
          Step(s, createSetupIntent_record(flows[s], subscriptionId, ref))

CreateSubscriptionReturns(s) ==
    /\ Awaiting(s, "cs_createSubscription")
    /\ \E ref \in PaymentRefs, secret \in ClientSecrets, subscriptionId \in SubscriptionIds :
          Step(s, createSubscription_confirm(flows[s], ref, secret, subscriptionId))

ConfirmSubscriptionPaymentReturns(s) ==
    \/ /\ Awaiting(s, "si_confirmSubscriptionPayment")
       /\ Step(s, createSetupIntent_complete(flows[s]))
    \/ /\ Awaiting(s, "cs_confirmSubscriptionPayment")
       /\ Step(s, createSubscription_complete(flows[s]))

(***************************************************************************)
(* The children of the mount container.  mount() appends one wrapper       *)
(* (div.payment-methods-wrapper): the Stripe container with its inline     *)
(* opacity and pointer-events, and, when PayPal is available (opt), the    *)
(* PayPal option (sel: it has the class "selected") and the button wrapper *)
(* (disp: its inline display) whose container holds the rendered PayPal    *)
(* buttons (btns: the config.amount each button closed over).              *)
(***************************************************************************)
Wrapper(m, opt) ==
    [by |-> m, opt |-> opt, sel |-> FALSE, disp |-> "none", opacity |-> "", pe |-> "",
     btns |-> <<>>]

\* document.getElementById: the first element with the id, in document order.
WithOption(d) == {i \in DOMAIN d : d[i].opt}

FirstOption(d) == CHOOSE i \in WithOption(d) : \A j \in WithOption(d) : i <= j

\* this.paypalConfig: null, or the reply of GET /paypal/config.
NoConfig == [isNull |-> TRUE, clientId |-> "", amount |-> 0]

Config(clientId, amount) == [isNull |-> FALSE, clientId |-> clientId, amount |-> amount]

(***************************************************************************)
(* selectPayPal() and deselectPayPal(), on u = [selected, dom].            *)
(***************************************************************************)
MarkOption(d, sel, disp) ==
    IF WithOption(d) = {}
    THEN d
    ELSE [d EXCEPT ![FirstOption(d)].sel = sel, ![FirstOption(d)].disp = disp]

StyleStripeContainer(d, opacity, pe) ==
    IF d = <<>> THEN d ELSE [d EXCEPT ![1].opacity = opacity, ![1].pe = pe]

selectPayPal(u) ==
    [selected |-> TRUE,
     dom |-> StyleStripeContainer(MarkOption(u.dom, TRUE, "block"), "0.5", "none")]

\* A deselect that leaves the Stripe container dimmed and blocked.
deselectPayPal_keepsDimmed(u) ==
    [selected |-> FALSE, dom |-> MarkOption(u.dom, FALSE, "none")]

deselectPayPal(u) ==
    [selected |-> FALSE,
     dom |-> StyleStripeContainer(MarkOption(u.dom, FALSE, "none"), "1", "auto")]

\* The listeners of mount(): if (this.isPayPalSelected) this.deselectPayPal();
onPrimaryInteraction(u) == IF u.selected THEN deselectPayPal(u) ELSE u

(***************************************************************************)
(* mount(selector) and initializePayPal(), one record per invocation.      *)
(***************************************************************************)
MountInit ==
    [pc |-> "idle", cfg |-> NoVal, avail |-> FALSE, calledSdk |-> FALSE,
     clean |-> TRUE, tr |-> <<>>]

\* catch (error) { console.log("PayPal not configured, ...") }
mount_configCatch(g) == g

\* An availability test that accepts any config.
PaypalAvailable_anyConfig(cfg) == ~cfg.isNull

\* paypalAvailable = !!this.paypalConfig?.clientId
PaypalAvailable(cfg) == ~cfg.isNull /\ cfg.clientId # ""

\* if (paypalAvailable && this.paypalConfig) await this.initializePayPal(), which
\* returns at once if (this.paypalMounted || !this.paypalConfig).
LoadsSdk(avail, cfg, mounted) == avail /\ ~cfg.isNull /\ ~(mounted \/ cfg.isNull)

(***************************************************************************)
(* commercetools, as the service uses it: payments are created with a new  *)
(* id; a cart update (addPayment) and the order creation carry the cart    *)
(* version, are rejected when it is not the cart's current version or the  *)
(* cart is already ordered, and increment the version.                     *)
(***************************************************************************)
CtInit(amount) ==
    [cart |-> [version |-> 1, amount |-> amount, state |-> "Active", payments |-> {}],
     payments |-> <<>>,
     orders |-> <<>>]

\* A backend that does not compare versions.
CtAccepts_anyVersion(c, version) == c.cart.state = "Active"

CtAccepts(c, version) == c.cart.state = "Active" /\ c.cart.version = version

\* The error of a rejected cart update: a version conflict, or an update of a cart
\* that is no longer active.
CtRejection(c, version) ==
    IF c.cart.version # version THEN <<"ConcurrentModification">>
                                ELSE <<"InvalidOperation">>

CtCreatePayment(c, draft) == [c EXCEPT !.payments = Append(@, draft)]

CtAddPayment(c, paymentId) ==
    [c EXCEPT !.cart.version = @ + 1, !.cart.payments = @ \cup {paymentId}]

\* A backend that leaves the cart active after creating an order from it.
CtCreateOrder_keepsCartActive(c, r, version) ==
    [c EXCEPT !.cart.version = @ + 1,
              !.orders = Append(@, [by |-> r, cartVersion |-> version,
                                    payments |-> c.cart.payments,
                                    paymentState |-> "Paid",
                                    orderNumber |-> NoVal])]

CtCreateOrder(c, r, version) ==
    [c EXCEPT !.cart.version = @ + 1,
              !.cart.state = "Ordered",
              !.orders = Append(@, [by |-> r, cartVersion |-> version,
                                    payments |-> c.cart.payments,
                                    paymentState |-> "Paid",
                                    orderNumber |-> NoVal])]

(***************************************************************************)
(* PayPalPaymentService.capturePayPalOrder, one record per request.        *)
(***************************************************************************)
ReqInit ==
    [pc |-> "idle", oid |-> NoVal, wallet |-> 0, cartV |-> 0, amt |-> 0,
     cartPayments |-> {}, pay |-> 0, updV |-> 0, latV |-> 0, postV |-> 0,
     ord |-> 0, ordNo |-> NoVal, reply |-> NoVal, err |-> <<>>, cartId |-> NoVal,
     attachTries |-> 0, refetches |-> 0, rejection |-> <<>>]

\* A payment draft that records the charge only.
PaymentDraft_chargeOnly(q, r) ==
    [by |-> r,
     amountPlanned |-> q.amt,
     interfaceId |-> q.oid,
     transactions |->
        <<[type |-> "Charge", amount |-> q.amt,
           state |-> "Success", interactionId |-> q.oid]>>]

\* PaymentOutcome.AUTHORIZED and 'Success' are the states of a transaction that went
\* through.
SuccessfulState(state) == state \in {"PaymentOutcome.AUTHORIZED", "Success"}

\* ctPaymentService.createPayment({ amountPlanned, interfaceId, transactions })
PaymentDraft(q, r) ==
    [by |-> r,
     amountPlanned |-> q.amt,
     interfaceId |-> q.oid,
     transactions |->
        <<[type |-> "Authorization", amount |-> q.amt,
           state |-> "PaymentOutcome.AUTHORIZED", interactionId |-> q.oid],
          [type |-> "Charge", amount |-> q.amt,
           state |-> "Success", interactionId |-> q.oid]>>]

\* A createPayment that first looks for a payment of the same PayPal order.
capture_createPayment_dedup(c, q, r) ==
    IF \E i \in DOMAIN c.payments : c.payments[i].interfaceId = q.oid
    THEN [ct |-> c,
          id |-> CHOOSE i \in DOMAIN c.payments : c.payments[i].interfaceId = q.oid]
    ELSE [ct |-> CtCreatePayment(c, PaymentDraft(q, r)), id |-> Len(c.payments) + 1]

\* const ctPayment = await this.ctPaymentService.createPayment({...})
capture_createPayment(c, q, r) ==
    [ct |-> CtCreatePayment(c, PaymentDraft(q, r)), id |-> Len(c.payments) + 1]

\* addPayment({ resource: { id: cart.id, version: cart.version }, paymentId })
AttachVersion(q) == q.cartV

\* An order post that sends the version of the cart read before the attach.
OrderPostVersion_stale(q) == q.cartV

\* createOrderFromCart: version: latestCart.version
OrderPostVersion(q) == q.latV

\* A failure answered as a success.
CaptureFails_reply200(q, err) == [q EXCEPT !.pc = "replied", !.reply = "200", !.err = err]

\* capturePayPalOrder's catch logs and rethrows; the route replies 500.
CaptureFails(q, err) == [q EXCEPT !.pc = "replied", !.reply = "500", !.err = err]

\* What a rejected call of the order client carries: error.body.message,
\* error.message and error.body.errors, each sub-error with a message, a code or both.
SubErrors ==
    {[message |-> "sub-message", code |-> "SubCode"],
     [message |-> NoVal, code |-> "SubCode"],
     [message |-> "sub-message", code |-> NoVal]}

SubErrorLists ==
    UNION {[1..n -> SubErrors] : n \in 0..MaxSubErrors}

Rejections ==
    {[bodyMessage |-> b, message |-> m, errors |-> l] :
        b \in {NoVal, "body-message"}, m \in {NoVal, "message"}, l \in SubErrorLists}

\* A rejection with a message and no sub-errors.
Rejection(msg) == [bodyMessage |-> msg, message |-> msg, errors |-> <<>>]

\* const errorMessage = error?.body?.message || error?.message || 'Unknown error ...'
errorMessage(error) ==
    IF error.bodyMessage # NoVal THEN error.bodyMessage
    ELSE IF error.message # NoVal THEN error.message
    ELSE "Unknown error creating order"

\* errorDetails.map((e) => e.message || e.code)
errorDetails(error) ==
    [i \in 1..Len(error.errors) |->
        IF error.errors[i].message # NoVal THEN error.errors[i].message
                                           ELSE error.errors[i].code]

\* `${errorMessage}: ${errorDetails...join(', ')}`, or errorMessage alone: the parts
\* of the text, in their order.
detailedMessage(error) == <<errorMessage(error)>> \o errorDetails(error)

\* A catch that reports the message without the sub-errors.
OrderClientFails_dropsDetails(q, error) ==
    [CaptureFails(q, <<"Failed to create order from cart", errorMessage(error)>>)
        EXCEPT !.rejection = <<error>>]

\* createOrderFromCart's catch: throw new Error(`Failed to create order from cart: ...`)
\* (rejection keeps what was caught).
OrderClientFails(q, error) ==
    [CaptureFails(q, <<"Failed to create order from cart">> \o detailedMessage(error))
        EXCEPT !.rejection = <<error>>]

\* return { orderId, status: 'COMPLETED', paymentReference, ctOrderId, ... }; reply 200
CaptureResult(q) ==
    [orderId |-> q.oid, status |-> "COMPLETED", paymentReference |-> q.pay,
     ctOrderId |-> q.ord, orderNumber |-> q.ordNo]

SrvStep(r, q, c) ==
    /\ reqs' = [reqs EXCEPT ![r] = q]
    /\ ct' = c
    /\ UNCHANGED <<flowVars, uiVars, wallets, touches>>

FreeReq(r) ==
    /\ reqs[r].pc = "idle"
    /\ \A t \in Reqs : t < r => reqs[t].pc # "idle"

\* The route handler enters capturePayPalOrder(orderId):
\* getCart({ id: getCartIdFromContext() }) is called, whatever the id is, and awaited.
capturePayPalOrder_ctx(oid, w, cartId) ==
    [ReqInit EXCEPT !.pc = "getCart", !.oid = oid, !.wallet = w, !.cartId = cartId]

\* A request whose session has a cart.
capturePayPalOrder(oid, w) == capturePayPalOrder_ctx(oid, w, "cart-1")

\* The order ids seen so far, and the next one PayPal has not issued yet.
SeenOrderIds ==
    ({reqs[r].oid : r \in Reqs} \cup {wallets[w].oid : w \in Wallets}) \ {NoVal}

FreshOrderId ==
    ProviderOrderIds[1 + Cardinality(SeenOrderIds)]

\* A capture request that does not come from onApprove of this page (a repeated or
\* replayed POST, or another page of the same session): an order id already
\* posted, or another one.
DirectCapture(r) ==
    /\ FreeReq(r)
    /\ \E oid \in SeenOrderIds \cup {FreshOrderId} :
          SrvStep(r, capturePayPalOrder(oid, 0), ct)

\* A capture request whose session resolves no cart id.
CaptureWithoutCartId(r) ==
    /\ FreeReq(r)
    /\ \E oid \in SeenOrderIds \cup {FreshOrderId} :
          SrvStep(r, capturePayPalOrder_ctx(oid, 0, NoVal), ct)

\* const cart = await getCart(...); const amountPlanned = await getPaymentAmount({ cart })
\* (the amount is computed from the cart that was read).
\* No cart is found for an undefined id: that getCart can only reject.
GetCartReturns(r) ==
    /\ reqs[r].pc = "getCart"
    /\ reqs[r].cartId # NoVal
    /\ SrvStep(r, [reqs[r] EXCEPT !.pc = "createPayment",
                                  !.cartV = ct.cart.version,
                                  !.amt = ct.cart.amount,
                                  !.cartPayments = ct.cart.payments], ct)

CreatePaymentReturns(r) ==
    /\ reqs[r].pc = "createPayment"
    /\ LET created == capture_createPayment(ct, reqs[r], r)
       IN  SrvStep(r, [reqs[r] EXCEPT !.pc = "addPayment", !.pay = created.id,
                                      !.attachTries = @ + 1],
                   created.ct)

\* An attach that answers a version conflict by reading the cart again and
\* attaching once more.
AddPaymentReturns_retries(r) ==
    /\ reqs[r].pc = "addPayment"
    /\ IF CtAccepts(ct, AttachVersion(reqs[r]))
       THEN LET c == CtAddPayment(ct, reqs[r].pay)
            IN  SrvStep(r, [reqs[r] EXCEPT !.pc = "refetch", !.updV = c.cart.version,
                                           !.refetches = @ + 1], c)
       ELSE IF ct.cart.version # AttachVersion(reqs[r])
            THEN SrvStep(r, [reqs[r] EXCEPT !.cartV = ct.cart.version,
                                            !.attachTries = @ + 1], ct)
            ELSE SrvStep(r, CaptureFails(reqs[r],
                                         CtRejection(ct, AttachVersion(reqs[r]))), ct)

\* const updatedCart = await this.ctCartService.addPayment({...}): a rejection goes
\* to the catch of capturePayPalOrder.
AddPaymentReturns(r) ==
    /\ reqs[r].pc = "addPayment"
    /\ IF CtAccepts(ct, AttachVersion(reqs[r]))
       THEN LET c == CtAddPayment(ct, reqs[r].pay)
            IN  SrvStep(r, [reqs[r] EXCEPT !.pc = "refetch", !.updV = c.cart.version,
                                           !.refetches = @ + 1], c)
       ELSE SrvStep(r, CaptureFails(reqs[r], CtRejection(ct, AttachVersion(reqs[r]))),
                    ct)

\* createOrderFromCart: const latestCart = await getCart({ id: cart.id })
RefetchReturns(r) ==
    /\ reqs[r].pc = "refetch"
    /\ LET q == [reqs[r] EXCEPT !.latV = ct.cart.version]
       IN  SrvStep(r, [q EXCEPT !.pc = "postOrder", !.postV = OrderPostVersion(q)], ct)

\* An order post that creates the order and then fails.
PostOrderReturns_failsAfterPost(r) ==
    /\ reqs[r].pc = "postOrder"
    /\ IF CtAccepts(ct, reqs[r].postV)
       THEN SrvStep(r, OrderClientFails(reqs[r], Rejection("rejected")),
                    CtCreateOrder(ct, r, reqs[r].postV))
       ELSE SrvStep(r, OrderClientFails(reqs[r],
                                        Rejection(CtRejection(ct, reqs[r].postV)[1])), ct)

\* An order post whose rejection takes the payment off the cart again.
PostOrderReturns_compensates(r) ==
    /\ reqs[r].pc = "postOrder"
    /\ IF CtAccepts(ct, reqs[r].postV)
       THEN LET c == CtCreateOrder(ct, r, reqs[r].postV)
            IN  SrvStep(r, [reqs[r] EXCEPT !.pc = "replied", !.reply = "200",
                                          !.ord = Len(c.orders),
                                          !.ordNo = c.orders[Len(c.orders)].orderNumber],
                        c)
       ELSE SrvStep(r, OrderClientFails(reqs[r],
                                        Rejection(CtRejection(ct, reqs[r].postV)[1])),
                    [ct EXCEPT !.cart.payments = @ \ {reqs[r].pay}])

\* createOrderFromCart: apiClient.orders().post({ body: { cart, version, ... } })
PostOrderReturns(r) ==
    /\ reqs[r].pc = "postOrder"
    /\ IF CtAccepts(ct, reqs[r].postV)
       THEN LET c == CtCreateOrder(ct, r, reqs[r].postV)
            IN  SrvStep(r, [reqs[r] EXCEPT !.pc = "replied", !.reply = "200",
                                          !.ord = Len(c.orders),
                                          !.ordNo = c.orders[Len(c.orders)].orderNumber],
                        c)
       ELSE SrvStep(r, OrderClientFails(reqs[r],
                                        Rejection(CtRejection(ct, reqs[r].postV)[1])), ct)

\* The awaited backend call of request r is rejected for another reason.
BackendCallFails(r) ==
    /\ reqs[r].pc \in {"getCart", "createPayment", "addPayment", "refetch", "postOrder"}
    /\ IF reqs[r].pc \in {"refetch", "postOrder"}
       THEN SrvStep(r, OrderClientFails(reqs[r], Rejection("rejected")), ct)
       ELSE SrvStep(r, CaptureFails(reqs[r], <<"rejected", reqs[r].pc>>), ct)

\* The re-fetch or the order post of request r is rejected with a payload of
\* sub-errors.
OrderCallRejected(r) ==
    /\ reqs[r].pc \in {"refetch", "postOrder"}
    /\ \E error \in Rejections :
          SrvStep(r, OrderClientFails(reqs[r], error), ct)

\* Another request updates the cart (its version moves on, its total may change).
CartTouch ==
    /\ touches < MaxTouches
    /\ ct.cart.state = "Active"
    /\ \E a \in Amounts :
          ct' = [ct EXCEPT !.cart.version = @ + 1, !.cart.amount = a]
    /\ touches' = touches + 1
    /\ UNCHANGED <<flowVars, uiVars, wallets, reqs>>

(***************************************************************************)
(* The PayPal button callbacks of renderPayPalButton (createOrder,         *)
(* onApprove, onError, onCancel) and PaymentFlows.createPayPalPayment:     *)
(* one record per click on the button.                                     *)
(***************************************************************************)
WalletInit == [pc |-> "idle", amount |-> 0, oid |-> NoVal, req |-> 0, tr |-> <<>>]

WalletAt(g, pc) == [g EXCEPT !.pc = pc]

\* baseOptions.onError(error)
WalletOnError(g, err) == Log(g, Ev("onError", "error", <<err>>))

\* createOrder: const totalValue = (config.amount / 100).toFixed(2);
\* if (parseFloat(totalValue) <= 0) throw ...  (centAmount is a whole number of cents)
TotalIsPayable(amount) == amount > 0

\* createOrder's catch: onError(error); throw error.  The rejection goes to the SDK.
createOrder_catch(g, err) ==
    WalletAt(WalletOnError(Log(g, Ev("throw", "createOrder", <<err>>)), err), "sdkError")

createOrder(g, amount) ==
    IF TotalIsPayable(amount)
    THEN WalletAt(Log([g EXCEPT !.amount = amount],
                      Ev("call", "actions.order.create", <<"CAPTURE">>)), "createOrder")
    ELSE createOrder_catch([g EXCEPT !.amount = amount],
                           "Cart total must be greater than zero")

\* onApprove: const captureDetails = await actions.order.capture();
onApprove(g) == WalletAt(Log(g, Ev("call", "actions.order.capture", <<g.oid>>)), "capture")

\* onApprove's catch: onError(error)
onApprove_catch(g, err) ==
    WalletAt(WalletOnError(Log(g, Ev("throw", "actions.order.capture", <<err>>)), err),
             "done")

\* A cancel handler that reports the cancellation to the error callback.
onCancel_reportsError(g) ==
    WalletAt(WalletOnError(Log(g, Ev("onCancel", "cancelled", <<>>)), "cancelled"), "done")

\* onCancel: () => { console.log("PayPal payment cancelled by user"); }
onCancel(g) == WalletAt(Log(g, Ev("onCancel", "cancelled", <<>>)), "done")

\* createPayPalPayment: const result = await this.api.capturePayPalOrder(paypalOrderId)
createPayPalPayment(g, r) ==
    WalletAt(Log([Returned(g, "actions.order.capture", <<g.oid>>) EXCEPT !.req = r],
                 Ev("call", "capturePayPalOrder", <<g.oid>>)), "settle")

\* createPayPalPayment's catch: this.onError?.(error)
createPayPalPayment_catch(g, err) == WalletAt(WalletOnError(g, err), "done")

\* this.onComplete?.({ isSuccess: true, paymentReference, paymentIntent, orderId, ... })
createPayPalPayment_complete(g, result) ==
    Log(Log(g, Ev("ret", "capturePayPalOrder", <<result.orderId>>)),
        [ev |-> "onComplete", name |-> "PaymentResult",
         arg |-> <<"isSuccess", g.oid>>,
         paymentReference |-> result.paymentReference,
         orderId |-> result.ctOrderId,
         orderNumber |-> result.orderNumber])

\* if (result.merchantReturnUrl) { new URL(...); ...; window.location.href = ... }
createPayPalPayment_redirect(g, url) ==
    CASE url = NoVal -> WalletAt(g, "done")
      [] url = "invalid" ->
            createPayPalPayment_catch(Log(g, Ev("throw", "new URL", <<"TypeError">>)),
                                      "TypeError")
      [] OTHER -> WalletAt(Log(g, Ev("call", "window.location.href", <<url>>)), "navigated")

\* ApiService.capturePayPalOrder: a reply other than 200 is thrown as an error.
ApiCapturePayPalOrder(g, q, url) ==
    IF q.reply = "200"
    THEN createPayPalPayment_redirect(createPayPalPayment_complete(g, CaptureResult(q)), url)
    ELSE createPayPalPayment_catch(Log(g, Ev("throw", "capturePayPalOrder", <<"500">>)),
                                   "500")

WalletStep(w, g) ==
    /\ wallets' = [wallets EXCEPT ![w] = g]
    /\ UNCHANGED <<flowVars, uiVars, srvVars>>

\* A PayPal button is in the document and its wrapper is displayed.
VisibleButtons ==
    UNION {{<<i, b>> : b \in DOMAIN dom[i].btns} :
              i \in {j \in DOMAIN dom : dom[j].disp = "block"}}

\* The shopper clicks the PayPal button: the SDK calls createOrder.
ButtonClick(w) ==
    /\ wallets[w].pc = "idle"
    /\ \A v \in Wallets : v < w => wallets[v].pc # "idle"
    /\ \E ib \in VisibleButtons :
          WalletStep(w, createOrder(wallets[w], dom[ib[1]].btns[ib[2]]))

CreateOrderReturns(w) ==
    /\ wallets[w].pc = "createOrder"
    /\ \/ WalletStep(w, WalletAt(Returned([wallets[w] EXCEPT !.oid = FreshOrderId],
                                          "actions.order.create", <<FreshOrderId>>),
                                 "popup"))
       \/ \E e \in Errors : WalletStep(w, createOrder_catch(wallets[w], e))

\* The SDK reports a failed createOrder, or an error of its own, to the onError option.
SdkOnError(w) ==
    \/ /\ wallets[w].pc = "sdkError"
       /\ WalletStep(w, WalletAt(WalletOnError(wallets[w], "sdk"), "done"))
    \/ /\ wallets[w].pc = "popup"
       /\ WalletStep(w, WalletAt(WalletOnError(wallets[w], "sdk"), "done"))

\* The SDK reports that the shopper closed the popup.
OnCancel(w) ==
    /\ wallets[w].pc = "popup"
    /\ wallets' = [wallets EXCEPT ![w] = onCancel(wallets[w])]
    /\ lastUi' = UiEvent("cancel", w)
    /\ UNCHANGED <<flowVars, isPayPalSelected, paypalMounted, paypalConfig, sdk,
                   changeListeners, mounts, dom, srvVars>>

OnApprove(w) ==
    /\ wallets[w].pc = "popup"
    /\ WalletStep(w, onApprove(wallets[w]))

\* actions.order.capture() resolves: createPayPalPayment posts the capture request.
CaptureReturns(w) ==
    /\ wallets[w].pc = "capture"
    /\ \E r \in Reqs :
          /\ FreeReq(r)
          /\ wallets' = [wallets EXCEPT ![w] = createPayPalPayment(wallets[w], r)]
          /\ reqs' = [reqs EXCEPT ![r] = capturePayPalOrder(wallets[w].oid, w)]
          /\ UNCHANGED <<flowVars, uiVars, ct, touches>>

\* An onApprove that posts the capture request although actions.order.capture() rejected.
CaptureFails_settlesAnyway(w) ==
    /\ wallets[w].pc = "capture"
    /\ \E r \in Reqs :
          /\ FreeReq(r)
          /\ wallets' = [wallets EXCEPT ![w] =
                            WalletAt(Log([Log(wallets[w],
                                              Ev("throw", "actions.order.capture",
                                                 <<"err_1">>))
                                             EXCEPT !.req = r],
                                         Ev("call", "capturePayPalOrder",
                                            <<wallets[w].oid>>)),
                                     "settle")]
          /\ reqs' = [reqs EXCEPT ![r] = capturePayPalOrder(wallets[w].oid, w)]
          /\ UNCHANGED <<flowVars, uiVars, ct, touches>>

\* actions.order.capture() rejects: onApprove's catch.
CaptureFails_(w) ==
    /\ wallets[w].pc = "capture"
    /\ \E e \in Errors : WalletStep(w, onApprove_catch(wallets[w], e))

\* The reply to the capture request arrives.
SettleReturns(w) ==
    /\ wallets[w].pc = "settle"
    /\ reqs[wallets[w].req].pc = "replied"
    /\ \E url \in {NoVal, "invalid", "https://shop.example/thanks"} :
          WalletStep(w, ApiCapturePayPalOrder(wallets[w], reqs[wallets[w].req], url))

(***************************************************************************)
(* The method selector: the listeners and mount() of the component.       *)
(***************************************************************************)
UiStep(selected, d, ev) ==
    /\ isPayPalSelected' = selected
    /\ dom' = d
    /\ lastUi' = ev

\* A click on a PayPal option in the document: this.selectPayPal().
ClickOption ==
    /\ WithOption(dom) # {}
    /\ LET u == selectPayPal([selected |-> isPayPalSelected, dom |-> dom])
       IN  UiStep(u.selected, u.dom, UiEvent("select", 0))
    /\ mounts' = [m \in Mounts |->
                    IF mounts[m].pc \in {"idle", "done"}
                    THEN mounts[m]
                    ELSE [mounts[m] EXCEPT !.clean = FALSE]]
    /\ UNCHANGED <<flowVars, paypalMounted, paypalConfig, sdk, changeListeners, wallets,
                   srvVars>>

\* The shopper can change the Stripe Payment Element: it is mounted in a container
\* of the document (keyboard input reaches it also when pointer events are off)
\* and a "change" listener is registered.
ChangeCanFire == changeListeners > 0 /\ dom # <<>>

\* A click can reach a Stripe container of the document: its pointer-events is not
\* "none".
ClickCanReach == \E i \in DOMAIN dom : dom[i].pe # "none"

\* The Stripe Payment Element emits "change": every registered listener runs.
StripeChange ==
    /\ ChangeCanFire
    /\ LET u == onPrimaryInteraction([selected |-> isPayPalSelected, dom |-> dom])
       IN  UiStep(u.selected, u.dom, UiEvent("change", 0))
    /\ UNCHANGED <<flowVars, paypalMounted, paypalConfig, sdk, changeListeners, mounts,
                   wallets, srvVars>>

\* A click reaches a Stripe container of the document.
ClickStripeContainer ==
    /\ ClickCanReach
    /\ LET u == onPrimaryInteraction([selected |-> isPayPalSelected, dom |-> dom])
       IN  UiStep(u.selected, u.dom, UiEvent("click", 0))
    /\ UNCHANGED <<flowVars, paypalMounted, paypalConfig, sdk, changeListeners, mounts,
                   wallets, srvVars>>

\* mount(selector): querySelector, container.innerHTML = "", await getConfig().
MountStart(m) ==
    /\ mounts[m].pc = "idle"
    /\ \A k \in Mounts : k < m => mounts[k].pc # "idle"
    /\ \E found \in BOOLEAN :
          IF found
          THEN /\ mounts' = [mounts EXCEPT ![m].pc = "getConfig"]
               /\ UiStep(isPayPalSelected, <<>>, UiEvent("mountStart", m))
          ELSE /\ mounts' = [mounts EXCEPT ![m].pc = "done"]
               /\ UiStep(isPayPalSelected, dom, UiEvent("noContainer", m))
    /\ UNCHANGED <<flowVars, paypalMounted, paypalConfig, sdk, changeListeners, wallets,
                   srvVars>>

\* getConfig() settles; the wrapper is built and appended, the Stripe element is
\* mounted, the listeners are registered, and initializePayPal() is entered.
GetConfigReturns(m) ==
    /\ mounts[m].pc = "getConfig"
    /\ \E out \in {"threw", "null", "noClientId", "ok"} :
          LET cfg == CASE out = "threw" -> paypalConfig
                       [] out = "null" -> NoConfig
                       [] out = "noClientId" -> Config("", ct.cart.amount)
                       [] OTHER -> Config("client-id", ct.cart.amount)
              avail == out # "threw" /\ PaypalAvailable(cfg)
              loads == LoadsSdk(avail, cfg, paypalMounted)
              g == [mounts[m] EXCEPT !.cfg = out, !.avail = avail, !.calledSdk = loads,
                                     !.pc = IF loads THEN "loadSDK" ELSE "done"]
          IN  /\ paypalConfig' = cfg
              /\ mounts' = [mounts EXCEPT ![m] = IF out = "threw"
                                                 THEN mount_configCatch(g) ELSE g]
              /\ UiStep(isPayPalSelected, Append(dom, Wrapper(m, avail)),
                        UiEvent(IF loads THEN "mounting" ELSE "mounted", m))
    /\ changeListeners' = changeListeners + 1
    /\ UNCHANGED <<flowVars, paypalMounted, sdk, wallets, srvVars>>

\* loadPayPalSDK() settles; renderPayPalButton() renders into #paypal-button-container.
LoadSdkReturns(m) ==
    /\ mounts[m].pc = "loadSDK"
    /\ \E out \in {"loaded", "missing", "rejected"} :
          CASE out = "rejected" \/ (out = "missing" /\ ~sdk) ->
                  \* catch, or if (!window.paypal) return
                  /\ mounts' = [mounts EXCEPT ![m].pc = "done"]
                  /\ UiStep(isPayPalSelected, dom, UiEvent("mounted", m))
                  /\ UNCHANGED <<paypalMounted, sdk>>
            [] out = "loaded" /\ paypalConfig.isNull ->
                  \* renderPayPalButton returns at once; this.paypalMounted = true
                  /\ mounts' = [mounts EXCEPT ![m].pc = "done"]
                  /\ UiStep(isPayPalSelected, dom, UiEvent("mounted", m))
                  /\ paypalMounted' = TRUE
                  /\ sdk' = TRUE
            [] out = "loaded" /\ ~paypalConfig.isNull /\ WithOption(dom) = {} ->
                  \* render() finds no container and rejects; catch
                  /\ mounts' = [mounts EXCEPT ![m].pc = "done"]
                  /\ UiStep(isPayPalSelected, dom, UiEvent("mounted", m))
                  /\ sdk' = TRUE
                  /\ UNCHANGED paypalMounted
            [] out = "loaded" /\ ~paypalConfig.isNull /\ WithOption(dom) # {} ->
                  /\ mounts' = [mounts EXCEPT ![m].pc = "render"]
                  /\ UiStep(isPayPalSelected,
                            [dom EXCEPT ![FirstOption(dom)].btns =
                                            Append(@, paypalConfig.amount)],
                            UiEvent("mounting", m))
                  /\ sdk' = TRUE
                  /\ UNCHANGED paypalMounted
            [] OTHER -> FALSE
    /\ UNCHANGED <<flowVars, paypalConfig, changeListeners, wallets, srvVars>>

\* Buttons(...).render() resolves: this.paypalMounted = true.
RenderReturns(m) ==
    /\ mounts[m].pc = "render"
    /\ mounts' = [mounts EXCEPT ![m].pc = "done"]
    /\ paypalMounted' = TRUE
    /\ UiStep(isPayPalSelected, dom, UiEvent("mounted", m))
    /\ UNCHANGED <<flowVars, paypalConfig, sdk, changeListeners, wallets, srvVars>>

Init ==
    /\ paymentMode \in Modes
    /\ flows = [s \in Subs |-> FlowInit]
    /\ isPayPalSelected = FALSE
    /\ paypalMounted = FALSE
    /\ paypalConfig = NoConfig
    /\ sdk = FALSE
    /\ changeListeners = 0
    /\ mounts = [m \in Mounts |-> MountInit]
    /\ dom = <<>>
    /\ lastUi = [ev |-> "none", m |-> 0, was |-> FALSE, marked |-> FALSE,
                 fresh |-> FALSE]
    /\ wallets = [w \in Wallets |-> WalletInit]
    /\ ct = CtInit(1999)
    /\ reqs = [r \in Reqs |-> ReqInit]
    /\ touches = 0

NextFlows ==
    \E s \in Subs :
        \/ ComponentSubmit(s)
        \/ ElementsSubmitReturns(s)
        \/ CallFails(s)
        \/ GetPaymentReturns(s)
        \/ ConfirmStripePaymentReturns(s)
        \/ ConfirmPaymentIntentReturns(s)
        \/ CreateSetupIntentReturns(s)
        \/ ConfirmStripeSetupIntentReturns(s)
        \/ CreateSubscriptionFromSetupIntentReturns(s)
        \/ CreateSubscriptionReturns(s)
        \/ ConfirmSubscriptionPaymentReturns(s)

SpecFlows == Init /\ [][NextFlows]_vars

NextServer ==
    \/ CartTouch
    \/ \E r \in Reqs :
        \/ DirectCapture(r)
        \/ GetCartReturns(r)
        \/ CreatePaymentReturns(r)
        \/ AddPaymentReturns(r)
        \/ RefetchReturns(r)
        \/ PostOrderReturns(r)
        \/ BackendCallFails(r)

InitServer == Init /\ paymentMode = "payment"

NextWallet ==
    \/ CartTouch
    \/ \E w \in Wallets :
        \/ ButtonClick(w)
        \/ CreateOrderReturns(w)
        \/ SdkOnError(w)
        \/ OnCancel(w)
        \/ OnApprove(w)
        \/ CaptureReturns(w)
        \/ CaptureFails_(w)
        \/ SettleReturns(w)
    \/ \E r \in Reqs :
        \/ GetCartReturns(r)
        \/ CreatePaymentReturns(r)
        \/ AddPaymentReturns(r)
        \/ RefetchReturns(r)
        \/ PostOrderReturns(r)
        \/ BackendCallFails(r)

\* The page after a mount() that found PayPal configured for a cart total of a and
\* a click on the PayPal option.
InitWallet ==
    /\ paymentMode = "payment"
    /\ flows = [s \in Subs |-> FlowInit]
    /\ isPayPalSelected = TRUE
    /\ paypalMounted = TRUE
    /\ sdk = TRUE
    /\ changeListeners = 1
    /\ mounts = [m \in Mounts |->
                   IF m = 1
                   THEN [MountInit EXCEPT !.pc = "done", !.cfg = "ok", !.avail = TRUE,
                                          !.calledSdk = TRUE]
                   ELSE MountInit]
    /\ lastUi = [ev |-> "select", m |-> 0, was |-> FALSE, marked |-> FALSE,
                 fresh |-> FALSE]
    /\ wallets = [w \in Wallets |-> WalletInit]
    /\ reqs = [r \in Reqs |-> ReqInit]
    /\ touches = 0
    /\ \E a \in Amounts :
          /\ ct = CtInit(a)
          /\ paypalConfig = Config("client-id", a)
          /\ dom = <<[Wrapper(1, TRUE) EXCEPT !.sel = TRUE, !.disp = "block",
                                              !.opacity = "0.5", !.pe = "none",
                                              !.btns = <<a>>]>>

SpecWallet == InitWallet /\ [][NextWallet]_vars

\* mount() and the listeners of the selector.
NextSelector ==
    \/ ClickOption
    \/ StripeChange
    \/ ClickStripeContainer
    \/ \E m \in Mounts :
        \/ MountStart(m)
        \/ GetConfigReturns(m)
        \/ LoadSdkReturns(m)
        \/ RenderReturns(m)
    \/ \E w \in Wallets : ButtonClick(w)

InitSelector == Init /\ paymentMode = "payment"

SpecSelector == InitSelector /\ [][NextSelector]_vars

\* The component: the selector, submit() and the callbacks of the PayPal button.
NextComponent ==
    \/ NextSelector
    \/ \E s \in Subs : ComponentSubmit(s)
    \/ \E w \in Wallets :
        \/ CreateOrderReturns(w)
        \/ SdkOnError(w)
        \/ OnCancel(w)
        \/ OnApprove(w)

SpecComponent == InitSelector /\ [][NextComponent]_vars

SpecServer == InitServer /\ [][NextServer]_vars

\* Concurrent capture requests on a cart that nothing else updates.
NextSettle ==
    \E r \in Reqs :
        \/ DirectCapture(r)
        \/ GetCartReturns(r)
        \/ CreatePaymentReturns(r)
        \/ AddPaymentReturns(r)
        \/ RefetchReturns(r)
        \/ PostOrderReturns(r)
        \/ BackendCallFails(r)

SpecSettle == InitServer /\ [][NextSettle]_vars

\* The settlement service with requests of sessions that have no cart.
NextContext ==
    \/ NextServer
    \/ \E r \in Reqs : CaptureWithoutCartId(r)

SpecContext == InitServer /\ [][NextContext]_vars

\* createOrderFromCart alone, with the rejections it can receive: the first request
\* has read the cart, created its payment and attached it, and calls
\* createOrderFromCart(updatedCart) while other requests update the cart.
NextOrderClient ==
    \/ CartTouch
    \/ \E r \in Reqs :
        \/ RefetchReturns(r)
        \/ PostOrderReturns(r)
        \/ OrderCallRejected(r)

InitOrderClient ==
    LET read == [capturePayPalOrder("EC-1", 0) EXCEPT !.pc = "createPayment",
                                                     !.cartV = CtInit(1999).cart.version,
                                                     !.amt = 1999]
        created == capture_createPayment(CtInit(1999), read, 1)
        recorded == [read EXCEPT !.pc = "addPayment", !.pay = created.id,
                                 !.attachTries = 1]
        attached == CtAddPayment(created.ct, recorded.pay)
    IN  /\ paymentMode = "payment"
        /\ flows = [s \in Subs |-> FlowInit]
        /\ isPayPalSelected = FALSE
        /\ paypalMounted = FALSE
        /\ paypalConfig = NoConfig
        /\ sdk = FALSE
        /\ changeListeners = 0
        /\ mounts = [m \in Mounts |-> MountInit]
        /\ dom = <<>>
        /\ lastUi = [ev |-> "none", m |-> 0, was |-> FALSE, marked |-> FALSE,
                     fresh |-> FALSE]
        /\ wallets = [w \in Wallets |-> WalletInit]
        /\ ct = attached
        /\ reqs = [r \in Reqs |->
                     IF r = 1
                     THEN [recorded EXCEPT !.pc = "refetch",
                                           !.updV = attached.cart.version,
                                           !.refetches = 1]
                     ELSE ReqInit]
        /\ touches = 0

SpecOrderClient == InitOrderClient /\ [][NextOrderClient]_vars

\* submit() on a mounted page whose selection the shopper changes between calls;
\* PaymentFlows.submit() is followed up to the outcome of its first backend call.
NextSubmit ==
    \/ ClickOption
    \/ StripeChange
    \/ ClickStripeContainer
    \/ \E s \in Subs :
        \/ ComponentSubmit(s)
        \/ ElementsSubmitReturns(s)
        \/ CallFails(s)

\* The page after a mount() that found PayPal configured and rendered its button.
InitSubmit ==
    /\ paymentMode \in Modes
    /\ flows = [s \in Subs |-> FlowInit]
    /\ isPayPalSelected = FALSE
    /\ paypalMounted = TRUE
    /\ paypalConfig = Config("client-id", 1999)
    /\ sdk = TRUE
    /\ changeListeners = 1
    /\ mounts = [m \in Mounts |->
                   IF m = 1
                   THEN [MountInit EXCEPT !.pc = "done", !.cfg = "ok", !.avail = TRUE,
                                          !.calledSdk = TRUE]
                   ELSE MountInit]
    /\ dom = <<[Wrapper(1, TRUE) EXCEPT !.btns = <<1999>>]>>
    /\ lastUi = [ev |-> "mounted", m |-> 1, was |-> FALSE, marked |-> FALSE,
                 fresh |-> FALSE]
    /\ wallets = [w \in Wallets |-> WalletInit]
    /\ ct = CtInit(1999)
    /\ reqs = [r \in Reqs |-> ReqInit]
    /\ touches = 0

SpecSubmit == InitSubmit /\ [][NextSubmit]_vars

(***************************************************************************)
(* Reading a trace.                                                        *)
(***************************************************************************)
EventsOf(tr, kind) == SelectSeq(tr, LAMBDA e : e.ev = kind)

Count(tr, kind) == Len(EventsOf(tr, kind))

Names(evs) == [i \in 1..Len(evs) |-> evs[i].name]

IsPrefix(a, b) == Len(a) <= Len(b) /\ a = SubSeq(b, 1, Len(a))

\* PaymentFlows.submit() was entered by invocation s.
Submitted(s) == flows[s].pc \notin {"idle", "skipped"}

\* The backend and provider calls of an invocation after elements.submit().
SequenceCalls(tr) ==
    Names(SelectSeq(tr, LAMBDA e : e.ev = "call" /\ e.name # "elements.submit"))

PassedValidation(tr) ==
    \E i \in 1..Len(tr) : tr[i] = Ev("ret", "elements.submit", <<>>)

(***************************************************************************)
(* C1: one PaymentFlows.submit() invocation invokes exactly one of the     *)
(* completion callback and the error callback: at no time more than one    *)
(* callback has been invoked for it, and when it has finished exactly one  *)
(* has, whatever the mode and whatever each provider and backend step      *)
(* answered.                                                               *)
(***************************************************************************)
C1_ExactlyOneCallback ==
    \A s \in Subs :
        Submitted(s) =>
            LET n == Count(flows[s].tr, "onComplete") + Count(flows[s].tr, "onError")
            IN  /\ n <= 1
                /\ (flows[s].pc = "done") <=> (n = 1)

C1_Witness ==
    \E s, t \in Subs :
        /\ flows[s].pc = "done" /\ Count(flows[s].tr, "onComplete") = 1
        /\ flows[t].pc = "done" /\ Count(flows[t].tr, "onError") = 1
        /\ Count(flows[t].tr, "call") > 1

(***************************************************************************)
(* C2: a submit() that passed input validation issues only the calls of    *)
(* its configured mode, each once and in the mode's order, every call      *)
(* after the previous call has returned; the completion callback comes     *)
(* after the return of the last call of the sequence.                      *)
(***************************************************************************)
ModeSequence(mode) ==
    CASE mode = "payment" ->
            <<"getPayment", "confirmStripePayment", "confirmPaymentIntent">>
      [] mode = "setup" ->
            <<"createSetupIntent", "confirmStripeSetupIntent",
              "createSubscriptionFromSetupIntent", "confirmSubscriptionPayment">>
      [] mode = "subscription" ->
            <<"createSubscription", "confirmStripePayment", "confirmSubscriptionPayment">>
      [] OTHER -> <<>>

\* Every call but the first is issued right after the return of the call before it.
CallsAreSequential(tr) ==
    \A i \in 2..Len(tr) :
        tr[i].ev = "call" =>
            /\ tr[i - 1].ev = "ret"
            /\ \E j \in 1..(i - 2) :
                  /\ tr[j] = Ev("call", tr[i - 1].name, tr[j].arg)
                  /\ \A k \in (j + 1)..(i - 2) : tr[k].ev # "call"

CompletionIsLast(tr, mode) ==
    \A i \in 1..Len(tr) :
        tr[i].ev = "onComplete" =>
            /\ i = Len(tr)
            /\ SequenceCalls(tr) = ModeSequence(mode)
            /\ tr[i - 1].ev = "ret"
            /\ tr[i - 1].name = ModeSequence(mode)[Len(ModeSequence(mode))]

C2_ModeSequenceInOrder ==
    \A s \in Subs :
        LET tr == flows[s].tr
        IN  /\ IsPrefix(SequenceCalls(tr), ModeSequence(paymentMode))
            /\ SequenceCalls(tr) # <<>> => PassedValidation(tr)
            /\ CallsAreSequential(tr)
            /\ CompletionIsLast(tr, paymentMode)

C2_Witness ==
    \E s, t \in Subs :
        /\ s # t
        /\ paymentMode = "setup"
        /\ Count(flows[s].tr, "onComplete") = 1
        /\ Len(SequenceCalls(flows[t].tr)) = 2
        /\ flows[t].pc # "done"


(***************************************************************************)
(* C3: in the alternative-wallet flow the payment record is created        *)
(* before the order and the order before the completion callback: every    *)
(* order was created from a cart that already had the payment of its       *)
(* request attached, and every SettlementResult handed to the completion   *)
(* callback names a payment record and an order that exist, the order      *)
(* holding that payment.                                                   *)
(***************************************************************************)
Completions(w) == EventsOf(wallets[w].tr, "onComplete")

C3_RecordsBeforeCompletion ==
    /\ \A o \in DOMAIN ct.orders :
          LET q == reqs[ct.orders[o].by]
          IN  /\ q.pay \in DOMAIN ct.payments
              /\ q.pay \in ct.orders[o].payments
    /\ \A w \in Wallets :
          \A i \in DOMAIN Completions(w) :
              LET done == Completions(w)[i]
              IN  /\ done.paymentReference \in DOMAIN ct.payments
                  /\ done.orderId \in DOMAIN ct.orders
                  /\ done.paymentReference \in ct.orders[done.orderId].payments
                  /\ ct.payments[done.paymentReference].interfaceId = wallets[w].oid

C3_Witness ==
    \E w \in Wallets :
        /\ Len(Completions(w)) = 1
        /\ Len(ct.orders) = 1
        /\ touches > 0

(***************************************************************************)
(* C4 as claimed: the order is posted with the version of the cart that    *)
(* addPayment returned.                                                    *)
(***************************************************************************)
Posted(r) == reqs[r].postV # 0

C4_PostsAttachVersion ==
    \A r \in Reqs : Posted(r) => reqs[r].postV = reqs[r].updV

(***************************************************************************)
(* C4, amended: the order is posted with the version read by the re-fetch  *)
(* of createOrderFromCart, made after the attach: it is never lower than   *)
(* the version addPayment returned, always higher than the version read    *)
(* before the attach, and every order created carries it.                  *)
(***************************************************************************)
C4_PostsRefetchedVersion ==
    /\ \A r \in Reqs :
          Posted(r) =>
              /\ reqs[r].postV = reqs[r].latV
              /\ reqs[r].postV >= reqs[r].updV
              /\ reqs[r].updV = reqs[r].cartV + 1
    /\ \A o \in DOMAIN ct.orders :
          /\ ct.orders[o].cartVersion = reqs[ct.orders[o].by].postV
          /\ ct.orders[o].cartVersion > reqs[ct.orders[o].by].cartV

C4_Witness ==
    \E r \in Reqs :
        /\ reqs[r].reply = "200"
        /\ reqs[r].postV > reqs[r].updV

(***************************************************************************)
(* C5: every settle call that reaches the create-payment step creates a    *)
(* payment record of its own, also when a record with the same provider    *)
(* order id exists and the cart it read already had a payment attached:    *)
(* two calls have two distinct payment records.                            *)
(***************************************************************************)
CreatedPayment(r) == reqs[r].pay # 0

C5_NoDeduplication ==
    /\ \A r \in Reqs :
          CreatedPayment(r) =>
              /\ reqs[r].pay \in DOMAIN ct.payments
              /\ ct.payments[reqs[r].pay].by = r
              /\ ct.payments[reqs[r].pay].interfaceId = reqs[r].oid
    /\ \A r1, r2 \in Reqs :
          (r1 # r2 /\ CreatedPayment(r1) /\ CreatedPayment(r2))
              => reqs[r1].pay # reqs[r2].pay
    /\ Len(ct.payments) = Cardinality({r \in Reqs : CreatedPayment(r)})

C5_Witness ==
    \E r1, r2 \in Reqs :
        /\ r1 # r2
        /\ reqs[r1].oid = reqs[r2].oid
        /\ reqs[r1].pay \in reqs[r2].cartPayments
        /\ CreatedPayment(r2)
        /\ ct.payments[reqs[r1].pay].interfaceId = ct.payments[reqs[r2].pay].interfaceId

(***************************************************************************)
(* C6: when PayPal is the active method, a "change" event of the Stripe    *)
(* element or a click on a Stripe container makes the Stripe element the   *)
(* active method again, gives the first Stripe container full opacity and  *)
(* pointer events, and leaves no option marked selected and no PayPal      *)
(* button wrapper displayed.                                               *)
(***************************************************************************)
Interactive(x) == x.opacity # "0.5" /\ x.pe # "none"

Unselected(x) == ~x.sel /\ x.disp = "none"

C6_InteractionDeselects ==
    (lastUi.ev \in {"change", "click"} /\ lastUi.was) =>
        /\ ~isPayPalSelected
        /\ dom # <<>> => dom[1].opacity = "1" /\ dom[1].pe = "auto"
        /\ \A i \in DOMAIN dom : Interactive(dom[i]) /\ Unselected(dom[i])

C6_Witness ==
    /\ lastUi.ev = "change"
    /\ lastUi.was
    /\ lastUi.marked
    /\ WithOption(dom) # {}
    /\ dom[1].pe = "auto"

(***************************************************************************)
(* C7: whenever no mount() is in progress, the selector's widgets agree    *)
(* with isPayPalSelected: if it is set, the first PayPal option is marked, *)
(* its button wrapper is displayed and the first Stripe container is       *)
(* dimmed and blocked; if it is not set, nothing is marked, displayed,     *)
(* dimmed or blocked.                                                      *)
(***************************************************************************)
MountsSettled == \A m \in Mounts : mounts[m].pc \in {"idle", "done"}

C7_AffordancesAgree ==
    MountsSettled =>
        IF isPayPalSelected
        THEN /\ WithOption(dom) # {}
             /\ dom[FirstOption(dom)].sel
             /\ dom[FirstOption(dom)].disp = "block"
             /\ dom[1].opacity = "0.5"
             /\ dom[1].pe = "none"
        ELSE \A i \in DOMAIN dom : Interactive(dom[i]) /\ Unselected(dom[i])

(***************************************************************************)
(* C8: when a mount() that found its container has ended, and PayPal was   *)
(* not selected while it ran, the Stripe element is the active method, and *)
(* a submit() that comes next is dispatched to PaymentFlows.               *)
(***************************************************************************)
C8_RemountResets ==
    /\ FreshlyMounted => ~isPayPalSelected
    /\ (lastUi.ev = "submit" /\ lastUi.fresh) => flows[lastUi.m].pc # "skipped"

(***************************************************************************)
(* C9 as claimed: after the SDK reports a cancellation, the flow has made  *)
(* no capture request and invoked no callback, and PayPal is no longer     *)
(* selected: no option is marked and no button wrapper is displayed.       *)
(***************************************************************************)
Callbacks(tr) == Count(tr, "onComplete") + Count(tr, "onError")

CancelledSilently(w) ==
    /\ wallets[w].pc = "done"
    /\ wallets[w].req = 0
    /\ \A r \in Reqs : reqs[r].wallet # w
    /\ \A i \in DOMAIN wallets[w].tr : wallets[w].tr[i].name # "capturePayPalOrder"
    /\ Callbacks(wallets[w].tr) = 0

C9_CancelReverts ==
    lastUi.ev = "cancel" =>
        /\ CancelledSilently(lastUi.m)
        /\ ~isPayPalSelected
        /\ \A i \in DOMAIN dom : Unselected(dom[i])

(***************************************************************************)
(* C9: after the SDK reports a cancellation, the flow has made no capture  *)
(* request and invoked no callback, and the selection is as it was before: *)
(* isPayPalSelected and the option's mark are unchanged.                   *)
(***************************************************************************)
C9_CancelIsSilent ==
    lastUi.ev = "cancel" =>
        /\ CancelledSilently(lastUi.m)
        /\ isPayPalSelected = lastUi.was
        /\ (\E i \in DOMAIN dom : dom[i].sel) = lastUi.marked

C9_Witness ==
    /\ lastUi.ev = "cancel"
    /\ lastUi.was
    /\ lastUi.marked
    /\ Count(wallets[lastUi.m].tr, "onCancel") = 1
    /\ isPayPalSelected

(***************************************************************************)
(* C10: a mount() whose getConfig() failed, or returned null or a config   *)
(* without clientId, puts no PayPal option and no button in its wrapper,   *)
(* does not call loadPayPalSDK and invokes no callback; and as long as no  *)
(* mount() has received a config with a clientId, the document has no      *)
(* PayPal option, window.paypal is not loaded, PayPal is never selected    *)
(* and no button flow has started.                                         *)
(***************************************************************************)
Unavailable(m) == mounts[m].cfg \in {"threw", "null", "noClientId"}

C10_UnavailableNeverOffered ==
    /\ \A m \in Mounts :
          Unavailable(m) =>
              /\ mounts[m].pc = "done"
              /\ ~mounts[m].calledSdk
              /\ Callbacks(mounts[m].tr) = 0
              /\ \A i \in DOMAIN dom :
                    dom[i].by = m =>
                        ~dom[i].opt /\ dom[i].btns = <<>> /\ Unselected(dom[i])
    /\ (\A m \in Mounts : mounts[m].cfg # "ok") =>
              /\ WithOption(dom) = {}
              /\ ~sdk
              /\ ~paypalMounted
              /\ ~isPayPalSelected
              /\ \A w \in Wallets : wallets[w] = WalletInit

C10_Witness ==
    \E m \in Mounts :
        /\ mounts[m].cfg = "noClientId"
        /\ \E i \in DOMAIN dom : dom[i].by = m
        /\ lastUi.ev = "click"
        /\ \A k \in Mounts : mounts[k].cfg # "ok"

(***************************************************************************)
(* C11: submit() of the component calls PaymentFlows.submit() exactly when *)
(* PayPal is not selected.  A submit() made while PayPal is selected makes *)
(* no call and invokes no callback, then or later, and submit() leaves the *)
(* selection and the option's mark as they were.                           *)
(***************************************************************************)
Dispatched(f) ==
    /\ f.pc \notin {"idle", "skipped"}
    /\ f.tr # <<>>
    /\ f.tr[1] = Ev("call", "elements.submit", <<>>)

C11_SubmitDispatchesIffPrimary ==
    /\ \A s \in Subs : flows[s].pc = "skipped" => flows[s].tr = <<>>
    /\ \A s \in Subs : flows[s].pc \notin {"idle", "skipped"} => Dispatched(flows[s])
    /\ lastUi.ev = "submit" =>
          /\ lastUi.was => flows[lastUi.m].pc = "skipped"
          /\ ~lastUi.was => Dispatched(flows[lastUi.m])
          /\ isPayPalSelected = lastUi.was
          /\ (\E i \in DOMAIN dom : dom[i].sel) = lastUi.marked

C11_Witness ==
    /\ lastUi.ev = "submit"
    /\ lastUi.was
    /\ lastUi.m = 2
    /\ flows[2].pc = "skipped"
    /\ Dispatched(flows[1])
    /\ isPayPalSelected

(***************************************************************************)
(* C12: when elements.submit() reports an error, the invocation makes no   *)
(* other call, in any mode: it invokes the error callback once, with that  *)
(* error, does not invoke the completion callback, and ends.               *)
(***************************************************************************)
ValidationFailed(tr) ==
    /\ Len(tr) >= 2
    /\ tr[2].ev = "ret"
    /\ tr[2].name = "elements.submit"
    /\ tr[2].arg # <<>>

C12_ValidationErrorAborts ==
    \A s \in Subs :
        ValidationFailed(flows[s].tr) =>
            /\ flows[s].pc = "done"
            /\ SequenceCalls(flows[s].tr) = <<>>
            /\ Count(flows[s].tr, "call") = 1
            /\ Count(flows[s].tr, "onComplete") = 0
            /\ EventsOf(flows[s].tr, "onError") = <<Ev("onError", "error", flows[s].tr[2].arg)>>

C12_Witness ==
    \E s \in Subs :
        /\ paymentMode = "subscription"
        /\ ValidationFailed(flows[s].tr)
        /\ flows[s].tr[2].arg = <<"err_2">>
        /\ flows[s].pc = "done"

(***************************************************************************)
(* C13: when a backend or provider call of a mode's sequence rejects, the  *)
(* invocation makes no further call: the next and last event is the error  *)
(* callback with that rejection, the completion callback is not invoked,   *)
(* and submit() ends normally.  No call is made twice in one invocation.   *)
(***************************************************************************)
CalledAtMostOnce(tr) ==
    \A i, j \in DOMAIN tr :
        (tr[i].ev = "call" /\ tr[j].ev = "call" /\ tr[i].name = tr[j].name) => i = j

StepFailed(tr, i) == tr[i].ev = "throw" /\ tr[i].name # "submit"

C13_FailedStepEndsSubmit ==
    \A s \in Subs :
        LET tr == flows[s].tr
        IN  /\ CalledAtMostOnce(tr)
            /\ \A i \in DOMAIN tr :
                  StepFailed(tr, i) =>
                      /\ i = Len(tr) - 1
                      /\ tr[i - 1].ev = "call"
                      /\ tr[Len(tr)] = Ev("onError", "error", tr[i].arg)
                      /\ Count(tr, "onComplete") = 0
                      /\ Count(tr, "onError") = 1
                      /\ flows[s].pc = "done"

C13_Witness ==
    \E s \in Subs :
        \E i \in DOMAIN flows[s].tr :
            /\ StepFailed(flows[s].tr, i)
            /\ flows[s].tr[i].name = "si_createSubscriptionFromSetupIntent"
            /\ Len(SequenceCalls(flows[s].tr)) = 3

(***************************************************************************)
(* C14: for one approval (one onApprove call) the completion callback is   *)
(* invoked at most once, the error callback at most once, and never both;  *)
(* the completion callback only after a 200 reply to the capture request,  *)
(* and not at all when a step of onApprove or createPayPalPayment threw.   *)
(***************************************************************************)
Approved(w) ==
    \E i \in DOMAIN wallets[w].tr :
        wallets[w].tr[i].ev = "call" /\ wallets[w].tr[i].name = "actions.order.capture"

C14_OneCallbackPerApproval ==
    \A w \in Wallets :
        Approved(w) =>
            LET tr == wallets[w].tr
            IN  /\ Count(tr, "onComplete") <= 1
                /\ Count(tr, "onError") <= 1
                /\ Callbacks(tr) <= 1
                /\ Count(tr, "onComplete") = 1 =>
                      /\ wallets[w].req # 0
                      /\ reqs[wallets[w].req].reply = "200"
                /\ Count(tr, "throw") > 0 => Count(tr, "onComplete") = 0

(***************************************************************************)
(* C15: a button flow whose actions.order.capture() has not resolved has   *)
(* sent no capture request, and no request, payment record or order exists *)
(* for its PayPal order id; every capture request, payment record and      *)
(* order of the page belongs to a flow whose capture has resolved.         *)
(***************************************************************************)
CaptureCompleted(w) ==
    \E i \in DOMAIN wallets[w].tr :
        wallets[w].tr[i].ev = "ret" /\ wallets[w].tr[i].name = "actions.order.capture"

C15_SettleOnlyAfterCapture ==
    /\ \A w \in Wallets :
          ~CaptureCompleted(w) =>
              /\ wallets[w].req = 0
              /\ \A i \in DOMAIN wallets[w].tr : wallets[w].tr[i].name # "capturePayPalOrder"
              /\ \A r \in Reqs : reqs[r].wallet # w
              /\ wallets[w].oid # NoVal =>
                    /\ \A r \in Reqs : reqs[r].oid # wallets[w].oid
                    /\ \A p \in DOMAIN ct.payments :
                          ct.payments[p].interfaceId # wallets[w].oid
    /\ \A r \in Reqs :
          reqs[r].pc # "idle" =>
              /\ reqs[r].wallet \in Wallets
              /\ CaptureCompleted(reqs[r].wallet)
              /\ wallets[reqs[r].wallet].oid = reqs[r].oid
    /\ \A p \in DOMAIN ct.payments : CaptureCompleted(reqs[ct.payments[p].by].wallet)
    /\ \A o \in DOMAIN ct.orders : CaptureCompleted(reqs[ct.orders[o].by].wallet)

C15_Witness ==
    \E w \in Wallets :
        /\ wallets[w].pc = "done"
        /\ wallets[w].oid # NoVal
        /\ \E i \in DOMAIN wallets[w].tr :
              wallets[w].tr[i].ev = "throw" /\ wallets[w].tr[i].name = "actions.order.capture"
        /\ ~CaptureCompleted(w)

(***************************************************************************)
(* C16: every payment record created by capturePayPalOrder has exactly two *)
(* transactions, an Authorization and a Charge, both in a successful       *)
(* state, both with the amount read from the cart by that request and both *)
(* with the PayPal order id as interaction id.  The result of a request    *)
(* answered 200, and the completion callback's argument, carry that PayPal *)
(* order id, the id of the request's payment record, and the id and number *)
(* of the order the request created, which holds that payment.             *)
(***************************************************************************)
TwoTransactions(p, amount, oid) ==
    /\ Len(p.transactions) = 2
    /\ {p.transactions[i].type : i \in 1..2} = {"Authorization", "Charge"}
    /\ \A i \in 1..2 :
          /\ SuccessfulState(p.transactions[i].state)
          /\ p.transactions[i].amount = amount
          /\ p.transactions[i].interactionId = oid

C16_TransactionsAndResult ==
    /\ \A p \in DOMAIN ct.payments :
          LET q == reqs[ct.payments[p].by]
          IN  /\ q.pay = p
              /\ ct.payments[p].amountPlanned = q.amt
              /\ ct.payments[p].interfaceId = q.oid
              /\ TwoTransactions(ct.payments[p], q.amt, q.oid)
    /\ \A r \in Reqs :
          reqs[r].reply = "200" =>
              LET res == CaptureResult(reqs[r])
              IN  /\ res.orderId = reqs[r].oid
                  /\ res.paymentReference \in DOMAIN ct.payments
                  /\ ct.payments[res.paymentReference].by = r
                  /\ res.ctOrderId \in DOMAIN ct.orders
                  /\ ct.orders[res.ctOrderId].by = r
                  /\ res.paymentReference \in ct.orders[res.ctOrderId].payments
                  /\ ct.orders[res.ctOrderId].cartVersion >= reqs[r].updV
                  /\ res.orderNumber = ct.orders[res.ctOrderId].orderNumber
    /\ \A w \in Wallets :
          \A i \in DOMAIN wallets[w].tr :
              wallets[w].tr[i].ev = "onComplete" =>
                  LET e == wallets[w].tr[i]
                      res == CaptureResult(reqs[wallets[w].req])
                  IN  /\ reqs[wallets[w].req].reply = "200"
                      /\ e.arg = <<"isSuccess", res.orderId>>
                      /\ e.paymentReference = res.paymentReference
                      /\ e.orderId = res.ctOrderId
                      /\ e.orderNumber = res.orderNumber

C16_Witness ==
    \E w \in Wallets :
        /\ Count(wallets[w].tr, "onComplete") = 1
        /\ wallets[w].oid = "EC-1"
        /\ reqs[wallets[w].req].amt = 1999
        /\ ct.payments[reqs[wallets[w].req].pay].transactions[2].interactionId = "EC-1"

(***************************************************************************)
(* C17: in payment mode, confirmPaymentIntent receives the id returned by  *)
(* confirmStripePayment together with the paymentReference returned by the *)
(* getPayment of the same invocation, and the completion callback receives *)
(* isSuccess with the same paymentReference and id.                        *)
(***************************************************************************)
HasRet(tr, name) == \E i \in DOMAIN tr : tr[i].ev = "ret" /\ tr[i].name = name

RetOf(tr, name) ==
    tr[CHOOSE i \in DOMAIN tr : tr[i].ev = "ret" /\ tr[i].name = name].arg

C17_ConfirmAndCompleteCarryRef ==
    paymentMode = "payment" =>
        \A s \in Subs :
            LET tr == flows[s].tr
            IN  \A i \in DOMAIN tr :
                    /\ (tr[i].ev = "call" /\ tr[i].name = "confirmPaymentIntent") =>
                          /\ HasRet(tr, "getPayment")
                          /\ HasRet(tr, "confirmStripePayment")
                          /\ tr[i].arg = <<RetOf(tr, "confirmStripePayment")[1],
                                           RetOf(tr, "getPayment")[1]>>
                    /\ tr[i].ev = "onComplete" =>
                          /\ HasRet(tr, "confirmPaymentIntent")
                          /\ tr[i].arg = <<"isSuccess", RetOf(tr, "getPayment")[1],
                                           RetOf(tr, "confirmStripePayment")[1]>>

C17_Witness ==
    /\ paymentMode = "payment"
    /\ flows[1].pc = "done"
    /\ flows[1].tr[Len(flows[1].tr)] =
          Ev("onComplete", "PaymentResult", <<"isSuccess", "pr_1", "pi_2">>)
    /\ flows[2].pc = "cp_confirmPaymentIntent"
    /\ flows[2].tr[Len(flows[2].tr)] = Ev("call", "confirmPaymentIntent", <<"pi_1", "pr_2">>)

(***************************************************************************)
(* C18: in payment and subscription mode, every invocation that passed     *)
(* validation asks the backend for a ref of its own (getPayment or         *)
(* createSubscription, its first call), calls confirmStripePayment at most *)
(* once, and passes it the ref and client secret that its own request      *)
(* returned; two invocations that were given different refs confirm        *)
(* different refs, also when one follows the failure of the other or runs  *)
(* while the other is in flight.                                           *)
(***************************************************************************)
RefRequest(mode) == IF mode = "payment" THEN "getPayment" ELSE "createSubscription"

ConfirmCalls(tr) ==
    SelectSeq(tr, LAMBDA e : e.ev = "call" /\ e.name = "confirmStripePayment")

C18_FreshRefPerSubmit ==
    paymentMode \in {"payment", "subscription"} =>
        /\ \A s \in Subs :
              LET tr == flows[s].tr
              IN  /\ PassedValidation(tr) =>
                        /\ SequenceCalls(tr) # <<>>
                        /\ SequenceCalls(tr)[1] = RefRequest(paymentMode)
                        /\ Len(SelectSeq(tr, LAMBDA e : e.ev = "call" /\
                                              e.name = RefRequest(paymentMode))) = 1
                  /\ Len(ConfirmCalls(tr)) <= 1
                  /\ ConfirmCalls(tr) # <<>> =>
                        /\ HasRet(tr, RefRequest(paymentMode))
                        /\ ConfirmCalls(tr)[1].arg =
                              SubSeq(RetOf(tr, RefRequest(paymentMode)), 1, 2)
        /\ \A s, t \in Subs :
              (/\ s # t
               /\ ConfirmCalls(flows[s].tr) # <<>>
               /\ ConfirmCalls(flows[t].tr) # <<>>
               /\ RetOf(flows[s].tr, RefRequest(paymentMode))[1] #
                     RetOf(flows[t].tr, RefRequest(paymentMode))[1])
                  => ConfirmCalls(flows[s].tr)[1].arg[1] # ConfirmCalls(flows[t].tr)[1].arg[1]

C18_Witness ==
    /\ paymentMode = "payment"
    /\ flows[1].pc = "done"
    /\ Count(flows[1].tr, "onError") = 1
    /\ ConfirmCalls(flows[1].tr) # <<>>
    /\ ConfirmCalls(flows[1].tr)[1].arg[1] = "pr_2"
    /\ ConfirmCalls(flows[2].tr) # <<>>
    /\ ConfirmCalls(flows[2].tr)[1].arg[1] = "pr_1"

(***************************************************************************)
(* C19: a capture request whose context resolves no cart id fails with the *)
(* context error before any backend call: it is never waiting for a cart   *)
(* fetch, and it creates no payment record, attaches nothing and creates   *)
(* no order.                                                               *)
(***************************************************************************)
C19_NoCartIdFailsBeforeBackend ==
    \A r \in Reqs :
        (reqs[r].pc # "idle" /\ reqs[r].cartId = NoVal) =>
            /\ reqs[r].pc = "replied"
            /\ reqs[r].reply = "500"
            /\ reqs[r].err = <<"Cart ID not found in context">>
            /\ reqs[r].pay = 0
            /\ reqs[r].ord = 0

(***************************************************************************)
(* C20: settle attaches the payment with the cart version of its own cart  *)
(* fetch and attempts the attach once.  An accepted attach moved the cart  *)
(* from exactly that version; an attach rejected with a version conflict   *)
(* ends the request with the error (reply 500), with no second cart fetch, *)
(* no second attach and no order.                                          *)
(***************************************************************************)
AttachConflict(r) == reqs[r].err = <<"ConcurrentModification">>

C20_AttachOnceWithReadVersion ==
    \A r \in Reqs :
        /\ reqs[r].attachTries <= 1
        /\ reqs[r].updV # 0 => reqs[r].updV = reqs[r].cartV + 1
        /\ AttachConflict(r) =>
              /\ reqs[r].pc = "replied"
              /\ reqs[r].reply = "500"
              /\ reqs[r].attachTries = 1
              /\ reqs[r].cartV < ct.cart.version
              /\ reqs[r].updV = 0
              /\ reqs[r].latV = 0
              /\ reqs[r].ord = 0
              /\ \A i \in DOMAIN ct.orders : ct.orders[i].by # r
              /\ reqs[r].pay \notin ct.cart.payments

C20_Witness ==
    \E r \in Reqs : AttachConflict(r) /\ reqs[r].attachTries = 1

(***************************************************************************)
(* C21: settle performs no compensation.  A request whose order creation   *)
(* failed after its payment record was created and attached leaves the     *)
(* record in place and attached to the cart, replies with no result, and   *)
(* passes on the error of createOrderFromCart as it received it.           *)
(***************************************************************************)
OrderCreationFailed(r) ==
    reqs[r].pc = "replied" /\ reqs[r].updV # 0 /\ reqs[r].ord = 0

C21_NoCompensation ==
    \A r \in Reqs :
        OrderCreationFailed(r) =>
            /\ reqs[r].reply = "500"
            /\ Head(reqs[r].err) = "Failed to create order from cart"
            /\ reqs[r].pay \in DOMAIN ct.payments
            /\ ct.payments[reqs[r].pay].by = r
            /\ reqs[r].pay \in ct.cart.payments

C21_Witness ==
    \E r \in Reqs : OrderCreationFailed(r) /\ Len(reqs[r].err) > 1

(***************************************************************************)
(* C22: a request that replied with a result has created exactly one       *)
(* order, the one its result names; a request that failed, or has not      *)
(* replied yet, has created none.                                          *)
(***************************************************************************)
OrdersBy(r) == {i \in DOMAIN ct.orders : ct.orders[i].by = r}

C22_OneOrderPerResult ==
    \A r \in Reqs :
        IF reqs[r].reply = "200"
        THEN OrdersBy(r) = {reqs[r].ord}
        ELSE OrdersBy(r) = {}

C22_Witness ==
    \E r, t \in Reqs :
        /\ reqs[r].reply = "200" /\ OrdersBy(r) = {reqs[r].ord}
        /\ reqs[t].reply = "500" /\ reqs[t].updV # 0

(***************************************************************************)
(* C23: two requests that read the cart at the same version (so neither    *)
(* had attached when the other read) both create a payment record of their *)
(* own, and at most one of their attaches is accepted; the other request   *)
(* fails, creates no order and leaves its record unattached.               *)
(***************************************************************************)
ReadSameCart(r, t) ==
    r # t /\ reqs[r].cartV # 0 /\ reqs[r].cartV = reqs[t].cartV

C23_RacingAttaches ==
    \A r, t \in Reqs :
        ReadSameCart(r, t) =>
            /\ ~(reqs[r].updV # 0 /\ reqs[t].updV # 0)
            /\ (reqs[r].attachTries = 1 /\ reqs[t].attachTries = 1) =>
                  /\ reqs[r].pay # reqs[t].pay
                  /\ {reqs[r].pay, reqs[t].pay} \subseteq DOMAIN ct.payments
            /\ (reqs[r].updV # 0 /\ reqs[t].pc = "replied") =>
                  /\ reqs[t].reply = "500"
                  /\ reqs[t].ord = 0
                  /\ OrdersBy(t) = {}
                  /\ reqs[t].pay \notin ct.cart.payments

C23_Witness ==
    \E r, t \in Reqs :
        /\ ReadSameCart(r, t)
        /\ reqs[r].updV # 0
        /\ AttachConflict(t)
        /\ reqs[t].pay \in DOMAIN ct.payments

(***************************************************************************)
(* C24, as stated: at most one order is created from the cart, and the     *)
(* cart it is created from holds no payment attached by a request other    *)
(* than the one that posts the order.                                      *)
(***************************************************************************)
AttachedByOther(i) ==
    {t \in Reqs : /\ t # ct.orders[i].by
                  /\ reqs[t].updV # 0
                  /\ reqs[t].pay \in ct.orders[i].payments}

C24_OrderHoldsOnlyOwnPayment ==
    /\ Len(ct.orders) <= 1
    /\ \A i \in DOMAIN ct.orders : AttachedByOther(i) = {}

(***************************************************************************)
(* C24, amended: at most one order is created from the cart, from a        *)
(* version not older than the poster's own attach, and it holds the        *)
(* poster's payment; it may hold payments of other requests as well.       *)
(***************************************************************************)
C24_OneOrderWithOwnPayment ==
    /\ Len(ct.orders) <= 1
    /\ \A i \in DOMAIN ct.orders :
          LET q == reqs[ct.orders[i].by]
          IN  /\ q.pay \in ct.orders[i].payments
              /\ ct.orders[i].cartVersion >= q.updV
              /\ q.updV # 0

C24_Witness ==
    \E i \in DOMAIN ct.orders : AttachedByOther(i) # {}

(***************************************************************************)
(* C25: createOrderFromCart fetches the cart once and posts the order with *)
(* the version of that fetch.  When the fetch or the post is rejected it   *)
(* returns no order and raises one error: its text is the prefix, then the *)
(* backend's message, then every sub-error of the rejection in order, each *)
(* by its message, or by its code when it has no message.                  *)
(***************************************************************************)
OrderClientRaised(r) == reqs[r].rejection # <<>>

C25_RefetchOnceAndDetailedError ==
    \A r \in Reqs :
        /\ reqs[r].refetches <= 1
        /\ Posted(r) =>
              /\ reqs[r].refetches = 1
              /\ reqs[r].latV # 0
              /\ reqs[r].postV = reqs[r].latV
        /\ OrderClientRaised(r) =>
              LET e == reqs[r].rejection[1]
                  text == reqs[r].err
              IN  /\ reqs[r].ord = 0
                  /\ OrdersBy(r) = {}
                  /\ reqs[r].reply = "500"
                  /\ Len(text) = 2 + Len(e.errors)
                  /\ text[1] = "Failed to create order from cart"
                  /\ e.bodyMessage # NoVal => text[2] = e.bodyMessage
                  /\ (e.bodyMessage = NoVal /\ e.message # NoVal) => text[2] = e.message
                  /\ \A i \in DOMAIN e.errors :
                        /\ e.errors[i].message # NoVal => text[2 + i] = e.errors[i].message
                        /\ e.errors[i].message = NoVal => text[2 + i] = e.errors[i].code

C25_Witness ==
    \E r \in Reqs :
        /\ OrderClientRaised(r)
        /\ reqs[r].refetches = 1
        /\ Len(reqs[r].rejection[1].errors) = 2
        /\ reqs[r].rejection[1].errors[1].message = NoVal
        /\ reqs[r].rejection[1].errors[2].message # NoVal
        /\ reqs[r].rejection[1].bodyMessage # NoVal

(***************************************************************************)
(* C26: whenever PayPal is the active method, the shopper has a way back   *)
(* to the Stripe element: a click can reach a Stripe container, or the     *)
(* Stripe element can be changed.                                          *)
(***************************************************************************)
C26_SelectorNeverStuck ==
    isPayPalSelected => (ClickCanReach \/ ChangeCanFire)

(***************************************************************************)
(* C27: the payment a capture request of a button flow creates, and both   *)
(* of its transactions, carry the amount the flow's PayPal order was       *)
(* created for.                                                            *)
(***************************************************************************)
C27_RecordedAmountIsCapturedAmount ==
    \A r \in Reqs :
        (reqs[r].wallet # 0 /\ reqs[r].pay # 0) =>
            LET p == ct.payments[reqs[r].pay]
                captured == wallets[reqs[r].wallet].amount
            IN  /\ p.amountPlanned = captured
                /\ \A i \in DOMAIN p.transactions : p.transactions[i].amount = captured

(***************************************************************************)
(* C28: a click on the button whose configured amount is zero or negative  *)
(* creates no PayPal order, and the error callback is invoked exactly once *)
(* for that failure.                                                       *)
(***************************************************************************)
C28_ZeroAmountFailsOnce ==
    \A w \in Wallets :
        (wallets[w].pc # "idle" /\ wallets[w].amount <= 0) =>
            /\ \A i \in DOMAIN wallets[w].tr :
                  wallets[w].tr[i].name # "actions.order.create"
            /\ Count(wallets[w].tr, "onError") = 1
            /\ Count(wallets[w].tr, "onComplete") = 0

(***************************************************************************)
(* C29: the document never holds more than one PayPal button, and when no  *)
(* mount() is in progress, a button was rendered before, and every mount() *)
(* that built the present content received a usable config, the button is  *)
(* in the document.                                                        *)
(***************************************************************************)
RECURSIVE ButtonsIn(_)
ButtonsIn(d) == IF d = <<>> THEN 0 ELSE Len(Head(d).btns) + ButtonsIn(Tail(d))

RenderedOnce == ButtonsIn(dom) <= 1

PresentAfterMount ==
    (/\ MountsSettled
     /\ paypalMounted
     /\ dom # <<>>
     /\ \A i \in DOMAIN dom : mounts[dom[i].by].cfg = "ok") => ButtonsIn(dom) >= 1

C29_ButtonRenderedOnceAndPresent == RenderedOnce /\ PresentAfterMount

====
